---- MODULE Spec2Model ----
(***************************************************************************)
(* Run-lifecycle orchestrator of src/backend/main.py.                      *)
(*                                                                         *)
(* The service is one asyncio event loop.  A coroutine gives up control    *)
(* only at an await that really suspends.  s3_client.put_object,           *)
(* k8s_batch_v1.create_namespaced_job and delete_namespaced_job are         *)
(* blocking calls made from the coroutine, so the loop cannot switch to    *)
(* another handler during them; the only suspension point inside           *)
(* create_run and cancel_run is `await connection.send_text(...)` in       *)
(* _broadcast_log.  Each action below is therefore the code of a handler   *)
(* from one suspension point to the next.                                  *)
(***************************************************************************)
EXTENDS Integers, Sequences, FiniteSets, TLC

\* ---- bounds of the model ----
\* requests (create_run, cancel_run, websocket connects) the service receives
MaxRequests == 4
\* last reading of datetime.now()
MaxClock == 2
\* job templates prepared and kept for comparison
MaxBuilds == 2

\* clock ticks per formatted second: strftime('%Y%m%d-%H%M%S') drops the
\* sub-second part of datetime.now()
TicksPerSecond == 2

\* the WebSocket objects, in the order the server creates them
Sockets == <<"w1", "w2">>
Conns == {Sockets[i] : i \in DOMAIN Sockets}
NoConn == "none"

\* RunStatus, LogLevel
Pending == "Pending"
Running == "Running"
Completed == "Completed"
Failed == "Failed"
Cancelled == "Cancelled"
RunStatus == {Pending, Running, Completed, Failed, Cancelled}
Info == "Info"
Error == "Error"

\* log messages written by the handlers
MsgJobStarted == "Kubernetes job created and started"
MsgJobFailed == "Failed to create Kubernetes job"
MsgQueued == "Run created and queued"
MsgCancelled == "Run cancelled by user"

VARIABLES runs, logs, metrics, active_connections, log_counter,
          ws, suspended, response, nRequests,
          createOutcome, submitCalls, deleteCalls, nCreated, sendFailures,
          jobBuilt

\* runs .. log_counter are the module's globals; ws is the state of each
\* WebSocket; suspended holds the handlers parked at a send; response is the
\* last answer given to a caller.  The last four record calls made to the
\* collaborators: the outcome of put_object/create_namespaced_job per run,
\* the create_namespaced_job and delete_namespaced_job calls per run, and
\* the number of create_run calls; sendFailures records each send_text that
\* raised, with whether the except branch then removed the connection.
\* jobBuilt lists the calls of _prepare_job_template: the arguments, the
\* template returned and the log counter at the time of the call.
vars == <<runs, logs, metrics, active_connections, log_counter,
          ws, suspended, response, nRequests,
          createOutcome, submitCalls, deleteCalls, nCreated, sendFailures,
          jobBuilt>>

\* ---- run identity ----
strftime(now) == now \div TicksPerSecond

\* f"run-{len(self.runs) + 1}-{datetime.now().strftime(...)}": the two parts
\* are separated and the timestamp has fixed width, so the string is the pair
\* variant: the identity is the timestamp alone
RunIdTimestampOnly(n, now) == <<1, strftime(now)>>
RunId(n, now) == <<n + 1, strftime(now)>>

NoRun == <<0, 0>>
Clock == 0..MaxClock
AllRunIds == (1..MaxRequests) \X {strftime(now) : now \in Clock}

\* ---- log entries ----
LogEntry(id, runId, level, message) ==
    [id |-> id, runId |-> runId, level |-> level, message |-> message]

\* variant: the counter is not advanced
NextLogCounterStuck(c) == c
NextLogCounter(c) == c + 1

\* status check of cancel_run
\* variants: the check lets a Failed run through; only Completed is refused
CancelAllowedFailed(status) == status \in {Pending, Running, Failed}
CancelAllowedNotCompleted(status) == status # Completed
CancelAllowed(status) == status \in {Pending, Running}

\* list.remove(x): drops the first occurrence
RECURSIVE ListRemove(_, _)
ListRemove(l, x) ==
    IF l = <<>> THEN <<>>
    ELSE IF Head(l) = x THEN Tail(l)
    ELSE <<Head(l)>> \o ListRemove(Tail(l), x)

InList(l, x) == \E i \in 1..Len(l) : l[i] = x

Put(f, k, v) == [x \in DOMAIN f \cup {k} |-> IF x = k THEN v ELSE f[x]]

\* a request handler: which one, on which run, and where it stands
Handler(op, run_id) ==
    [pc |-> "run", op |-> op, run |-> run_id, stage |-> "none",
     idx |-> 0, conn |-> NoConn, entry |-> -1, result |-> "none",
     snap |-> <<>>, got |-> <<>>]

NoResponse == [op |-> "none", run |-> NoRun, result |-> "none"]

\* the handler returns or raises
Finish(s, result) ==
    [s EXCEPT !.t.pc = "done", !.t.result = result, !.t.conn = NoConn]

\* ---- _add_log / _broadcast_log, run up to the next suspension ----
\* s = [runs, logs, log_counter, ac, t]: the globals and the running handler
RECURSIVE add_log(_, _, _, _, _)
RECURSIVE broadcast_log(_)
RECURSIVE after_add_log(_)

\* variant: the entry is inserted at the head of the list
add_logPrepend(s, stage, run_id, level, message) ==
    LET entry == LogEntry(s.log_counter, run_id, level, message)
        lg == IF run_id \in DOMAIN s.logs
              THEN s.logs
              ELSE Put(s.logs, run_id, <<>>)
    IN broadcast_log(
         [s EXCEPT !.logs = [lg EXCEPT ![run_id] = <<entry>> \o @],
                   !.log_counter = NextLogCounter(@),
                   !.t.stage = stage,
                   !.t.entry = entry.id,
                   !.t.idx = 0,
                   !.t.snap = s.ac,
                   !.t.got = <<>>])

add_log(s, stage, run_id, level, message) ==
    LET entry == LogEntry(s.log_counter, run_id, level, message)
        lg == IF run_id \in DOMAIN s.logs
              THEN s.logs
              ELSE Put(s.logs, run_id, <<>>)
    IN broadcast_log(
         [s EXCEPT !.logs = [lg EXCEPT ![run_id] = Append(@, entry)],
                   !.log_counter = NextLogCounter(@),
                   !.t.stage = stage,
                   !.t.entry = entry.id,
                   !.t.idx = 0,
                   !.t.snap = s.ac,
                   !.t.got = <<>>])

\* one step of `for connection in active_connections`: the list iterator
\* keeps an index into the live list
broadcast_log(s) ==
    IF s.t.idx < Len(s.ac)
    THEN [s EXCEPT !.t.pc = "send",
                   !.t.conn = s.ac[s.t.idx + 1],
                   !.t.idx = @ + 1]
    ELSE after_add_log(s)

\* variant: create_run writes the status again after its first log entry
after_add_logRewrite(s) ==
    CASE s.t.stage = "job_started" ->
           add_log([s EXCEPT !.runs[s.t.run].status = Running],
                   "queued", s.t.run, Info, MsgQueued)
      [] s.t.stage = "queued" -> Finish(s, "ok")
      [] s.t.stage = "job_failed" -> Finish(s, "err_submit")
      [] s.t.stage = "cancelled" -> Finish(s, "ok")

\* variant: the except branch of _create_k8s_job does not raise
after_add_logNoRaise(s) ==
    CASE s.t.stage \in {"job_started", "job_failed"} ->
           add_log(s, "queued", s.t.run, Info, MsgQueued)
      [] s.t.stage = "queued" -> Finish(s, "ok")
      [] s.t.stage = "cancelled" -> Finish(s, "ok")

\* the statement after `await self._add_log(...)` in each caller
after_add_log(s) ==
    CASE s.t.stage = "job_started" ->
           add_log(s, "queued", s.t.run, Info, MsgQueued)
      [] s.t.stage = "queued" -> Finish(s, "ok")
      [] s.t.stage = "job_failed" -> Finish(s, "err_submit")
      [] s.t.stage = "cancelled" -> Finish(s, "ok")

State(h) == [runs |-> runs, logs |-> logs, log_counter |-> log_counter,
             ac |-> active_connections, t |-> h]

\* write the globals back; the handler is parked at its send or answers
Commit(rest, s) ==
    /\ runs' = s.runs
    /\ logs' = s.logs
    /\ log_counter' = s.log_counter
    /\ active_connections' = s.ac
    /\ IF s.t.pc = "send"
       THEN /\ suspended' = rest \cup {s.t}
            /\ response' = response
       ELSE /\ suspended' = rest
            /\ response' = [op |-> s.t.op, run |-> s.t.run,
                            result |-> s.t.result]

Init ==
    /\ runs = <<>>
    /\ logs = <<>>
    /\ metrics = <<>>
    /\ active_connections = <<>>
    /\ log_counter = 0
    /\ ws = [w \in Conns |-> "idle"]
    /\ suspended = {}
    /\ response = NoResponse
    /\ createOutcome = <<>>
    /\ submitCalls = <<>>
    /\ deleteCalls = <<>>
    /\ nCreated = 0
    /\ sendFailures = {}
    /\ nRequests = 0
    /\ jobBuilt = <<>>

\* ---- create_run ----
\* lines 142-159: allocate the identity and insert the run with empty streams
Inserted(run_id) ==
    [runs |-> Put(runs, run_id, [status |-> Pending]),
     logs |-> Put(logs, run_id, <<>>),
     log_counter |-> log_counter,
     ac |-> active_connections,
     t |-> Handler("create", run_id)]

CreateCalls(run_id, outcome, submits) ==
    /\ metrics' = Put(metrics, run_id, <<>>)
    /\ nCreated' = nCreated + 1
    /\ createOutcome' = Put(createOutcome, run_id, outcome)
    /\ submitCalls' = Put(submitCalls, run_id,
                          (IF run_id \in DOMAIN submitCalls
                           THEN submitCalls[run_id] ELSE 0) + submits)
    /\ deleteCalls' = Put(deleteCalls, run_id, [ok |-> 0, failed |-> 0])
    /\ UNCHANGED <<ws, sendFailures>>

\* a request arrives
Request ==
    /\ nRequests < MaxRequests
    /\ nRequests' = nRequests + 1

\* variant: the upload error is logged and the handler carries on
CreateUploadFailGoesOn(now) ==
    /\ Request
    /\ LET run_id == RunId(Cardinality(DOMAIN runs), now)
           s == [Inserted(run_id) EXCEPT !.runs[run_id].status = Running]
       IN /\ Commit(suspended,
                    add_log(s, "job_started", run_id, Info, MsgJobStarted))
          /\ CreateCalls(run_id, "upload_failed", 1)

\* put_object raises ClientError: HTTPException(500), nothing else is done
CreateUploadFail(now) ==
    /\ Request
    /\ LET run_id == RunId(Cardinality(DOMAIN runs), now)
       IN /\ Commit(suspended, Finish(Inserted(run_id), "err_upload"))
          /\ CreateCalls(run_id, "upload_failed", 0)

\* upload succeeds, create_namespaced_job succeeds
CreateSubmitOk(now) ==
    /\ Request
    /\ LET run_id == RunId(Cardinality(DOMAIN runs), now)
           s == [Inserted(run_id) EXCEPT !.runs[run_id].status = Running]
       IN /\ Commit(suspended,
                    add_log(s, "job_started", run_id, Info, MsgJobStarted))
          /\ CreateCalls(run_id, "submitted", 1)

\* variant: a failed create_namespaced_job is tried once more
CreateSubmitFailRetries(now) ==
    /\ Request
    /\ LET run_id == RunId(Cardinality(DOMAIN runs), now)
           s == [Inserted(run_id) EXCEPT !.runs[run_id].status = Running]
       IN /\ Commit(suspended,
                    add_log(s, "job_started", run_id, Info, MsgJobStarted))
          /\ CreateCalls(run_id, "submitted", 2)

\* upload succeeds, create_namespaced_job raises ApiException
CreateSubmitFail(now) ==
    /\ Request
    /\ LET run_id == RunId(Cardinality(DOMAIN runs), now)
           s == [Inserted(run_id) EXCEPT !.runs[run_id].status = Failed]
       IN /\ Commit(suspended,
                    add_log(s, "job_failed", run_id, Error, MsgJobFailed))
          /\ CreateCalls(run_id, "submit_failed", 1)

\* ---- cancel_run ----
Answer(run_id, result) ==
    /\ response' = [op |-> "cancel", run |-> run_id, result |-> result]
    /\ UNCHANGED <<runs, logs, metrics, active_connections, log_counter,
                   ws, suspended, sendFailures, createOutcome, submitCalls, nCreated>>

CancelNotFound(run_id) ==
    /\ Request
    /\ run_id \notin DOMAIN runs
    /\ Answer(run_id, "err_notfound")
    /\ UNCHANGED deleteCalls

CancelInvalidState(run_id) ==
    /\ Request
    /\ run_id \in DOMAIN runs
    /\ ~CancelAllowed(runs[run_id].status)
    /\ Answer(run_id, "err_invalid_state")
    /\ UNCHANGED deleteCalls

\* variant: a failed delete marks the run Failed
CancelDeleteFailMarksFailed(run_id) ==
    /\ Request
    /\ run_id \in DOMAIN runs
    /\ CancelAllowed(runs[run_id].status)
    /\ deleteCalls' = [deleteCalls EXCEPT ![run_id].failed = @ + 1]
    /\ runs' = [runs EXCEPT ![run_id].status = Failed]
    /\ response' = [op |-> "cancel", run |-> run_id, result |-> "err_cancel"]
    /\ UNCHANGED <<logs, metrics, active_connections, log_counter,
                   ws, suspended, sendFailures, createOutcome, submitCalls, nCreated>>

\* delete_namespaced_job raises ApiException: HTTPException(500)
CancelDeleteFail(run_id) ==
    /\ Request
    /\ run_id \in DOMAIN runs
    /\ CancelAllowed(runs[run_id].status)
    /\ deleteCalls' = [deleteCalls EXCEPT ![run_id].failed = @ + 1]
    /\ Answer(run_id, "err_cancel")

\* variant: the log entry is written but the status is not
CancelDeleteOkKeepsStatus(run_id) ==
    /\ Request
    /\ run_id \in DOMAIN runs
    /\ CancelAllowed(runs[run_id].status)
    /\ deleteCalls' = [deleteCalls EXCEPT ![run_id].ok = @ + 1]
    /\ Commit(suspended, add_log(State(Handler("cancel", run_id)), "cancelled",
                                 run_id, Info, MsgCancelled))
    /\ UNCHANGED <<metrics, ws, sendFailures, createOutcome, submitCalls, nCreated>>

\* variant: the status is written but no log entry
CancelDeleteOkNoLog(run_id) ==
    /\ Request
    /\ run_id \in DOMAIN runs
    /\ CancelAllowed(runs[run_id].status)
    /\ deleteCalls' = [deleteCalls EXCEPT ![run_id].ok = @ + 1]
    /\ LET s == [State(Handler("cancel", run_id))
                   EXCEPT !.runs[run_id].status = Cancelled]
       IN Commit(suspended, Finish(s, "ok"))
    /\ UNCHANGED <<metrics, ws, sendFailures, createOutcome, submitCalls,
                   nCreated>>

\* delete_namespaced_job succeeds
CancelDeleteOk(run_id) ==
    /\ Request
    /\ run_id \in DOMAIN runs
    /\ CancelAllowed(runs[run_id].status)
    /\ deleteCalls' = [deleteCalls EXCEPT ![run_id].ok = @ + 1]
    /\ LET s == [State(Handler("cancel", run_id))
                   EXCEPT !.runs[run_id].status = Cancelled]
       IN Commit(suspended, add_log(s, "cancelled", run_id, Info, MsgCancelled))
    /\ UNCHANGED <<metrics, ws, sendFailures, createOutcome, submitCalls, nCreated>>

\* ---- resuming from `await connection.send_text(...)` ----
\* the send returns normally; the loop goes on
SendOk(h) ==
    /\ h \in suspended
    /\ ws[h.conn] \in {"open", "gone"}
    /\ Commit(suspended \ {h},
              broadcast_log([State(h) EXCEPT !.t.pc = "run", !.t.conn = NoConn,
                                             !.t.got = Append(@, h.conn)]))
    /\ UNCHANGED <<metrics, ws, sendFailures, createOutcome, submitCalls, deleteCalls,
                   nCreated, nRequests>>

\* variant: the except branch leaves the list alone
SendFailKeeps(h) ==
    /\ h \in suspended
    /\ ws[h.conn] \in {"gone", "closed"}
    /\ Commit(suspended \ {h},
              broadcast_log([State(h) EXCEPT !.t.pc = "run", !.t.conn = NoConn]))
    /\ sendFailures' = sendFailures \cup {<<h.conn, InList(active_connections, h.conn)>>}
    /\ UNCHANGED <<metrics, ws, createOutcome, submitCalls, deleteCalls,
                   nCreated, nRequests>>

\* the send raises; `except:` runs active_connections.remove(connection),
\* which raises ValueError when the connection is no longer in the list
SendFail(h) ==
    /\ h \in suspended
    /\ ws[h.conn] \in {"gone", "closed"}
    /\ LET s == [State(h) EXCEPT !.t.pc = "run"]
       IN IF InList(s.ac, h.conn)
          THEN /\ Commit(suspended \ {h},
                         broadcast_log([s EXCEPT !.ac = ListRemove(@, h.conn),
                                                 !.t.conn = NoConn]))
               /\ sendFailures' = sendFailures \cup {<<h.conn, TRUE>>}
          ELSE /\ Commit(suspended \ {h}, Finish(s, "err_value_error"))
               /\ sendFailures' = sendFailures \cup {<<h.conn, FALSE>>}
    /\ UNCHANGED <<metrics, ws, createOutcome, submitCalls, deleteCalls,
                   nCreated, nRequests>>

\* ---- websocket_endpoint ----
\* accept() and active_connections.append(websocket)
Connect(w) ==
    /\ Request
    /\ ws[w] = "idle"
    /\ \A i, j \in DOMAIN Sockets :
          (Sockets[j] = w /\ i < j) => ws[Sockets[i]] # "idle"
    /\ ws' = [ws EXCEPT ![w] = "open"]
    /\ active_connections' = Append(active_connections, w)
    /\ UNCHANGED <<runs, logs, metrics, log_counter, suspended, response,
                   sendFailures, createOutcome, submitCalls, deleteCalls, nCreated>>

\* the client goes away; the endpoint has not yet been resumed
PeerLost(w) ==
    /\ ws[w] = "open"
    /\ ws' = [ws EXCEPT ![w] = "gone"]
    /\ UNCHANGED <<runs, logs, metrics, active_connections, log_counter,
                   suspended, response, sendFailures, createOutcome, submitCalls, deleteCalls,
                   nCreated, nRequests>>

\* receive_text() raises WebSocketDisconnect: active_connections.remove(websocket)
\* (a ValueError here ends the endpoint's own coroutine only)
Disconnect(w) ==
    /\ ws[w] = "gone"
    /\ ws' = [ws EXCEPT ![w] = "closed"]
    /\ active_connections' = IF InList(active_connections, w)
                             THEN ListRemove(active_connections, w)
                             ELSE active_connections
    /\ UNCHANGED <<runs, logs, metrics, log_counter, suspended, response,
                   sendFailures, createOutcome, submitCalls, deleteCalls,
                   nCreated, nRequests>>

\* run ids a cancel request may carry: the known ones and one not yet allocated
CancelIds == DOMAIN runs \cup {<<Cardinality(DOMAIN runs) + 1, 0>>}

Next ==
    \/ \E now \in Clock : CreateUploadFail(now) /\ UNCHANGED jobBuilt
    \/ \E now \in Clock : CreateSubmitOk(now) /\ UNCHANGED jobBuilt
    \/ \E now \in Clock : CreateSubmitFail(now) /\ UNCHANGED jobBuilt
    \/ \E r \in CancelIds : CancelNotFound(r) /\ UNCHANGED jobBuilt
    \/ \E r \in CancelIds : CancelInvalidState(r) /\ UNCHANGED jobBuilt
    \/ \E r \in CancelIds : CancelDeleteFail(r) /\ UNCHANGED jobBuilt
    \/ \E r \in CancelIds : CancelDeleteOk(r) /\ UNCHANGED jobBuilt
    \/ \E h \in suspended : SendOk(h) /\ UNCHANGED jobBuilt
    \/ \E h \in suspended : SendFail(h) /\ UNCHANGED jobBuilt
    \/ \E w \in Conns : Connect(w) /\ UNCHANGED jobBuilt
    \/ \E w \in Conns : PeerLost(w) /\ UNCHANGED jobBuilt
    \/ \E w \in Conns : Disconnect(w) /\ UNCHANGED jobBuilt

Spec == Init /\ [][Next]_vars

\* ---- _prepare_job_template ----
\* configuration read from the environment, at its defaults
NAMESPACE == "monty-sim"
S3_CHECKPOINTS_BUCKET == "monty-checkpoints-dev"
S3_ARTIFACTS_BUCKET == "sim-artifacts-dev"
ECR_REGISTRY == ""

\* Optional[str] = None
None == "None"

\* run.id as the string of line 142
RunIdText(id) == "run-" \o ToString(id[1]) \o "-" \o ToString(id[2])

monty_image(run) ==
    ECR_REGISTRY \o "/" \o run.montyImage.repo \o ":" \o run.montyImage.tag
sim_image(run) ==
    ECR_REGISTRY \o "/" \o run.simulatorImage.repo \o ":" \o run.simulatorImage.tag
glue_image == ECR_REGISTRY \o "/glue-base:py310"

s3_artifacts_prefix(run) ==
    "s3://" \o S3_ARTIFACTS_BUCKET \o "/runs/" \o RunIdText(run.id) \o "/artifacts"
\* variant: None is passed on instead of ""
s3_checkpoint_inRaw(run) == run.checkpointIn
\* run.checkpointIn or "": None and "" are both falsy
s3_checkpoint_in(run) ==
    IF run.checkpointIn \in {None, ""} THEN "" ELSE run.checkpointIn
s3_checkpoint_out(run) ==
    "s3://" \o S3_CHECKPOINTS_BUCKET \o "/checkpoints/" \o RunIdText(run.id)
            \o "/out.mstate"

volumeMounts ==
    <<[name |-> "ckpt", mountPath |-> "/checkpoints"],
      [name |-> "artifacts", mountPath |-> "/artifacts"],
      [name |-> "glue", mountPath |-> "/glue"]>>

\* the shell script of the artifact-uploader, one tuple of words per line
UploaderScript(run) ==
    <<<<"set", "-e">>,
      <<"echo", "Uploading artifacts...">>,
      <<"aws", "s3", "sync", "/artifacts", s3_artifacts_prefix(run),
        "--only-show-errors">>,
      <<"if", "[", "-f", "/checkpoints/out.mstate", "]", ";", "then">>,
      <<"aws", "s3", "cp", "/checkpoints/out.mstate", s3_checkpoint_out(run),
        "--only-show-errors">>,
      <<"fi">>,
      <<"echo", "Done.">>>>

\* the four containers, in the order of the list; env is keyed by variable name
Containers(run) ==
    <<[name |-> "unitree-sim",
       image |-> sim_image(run),
       imagePullPolicy |-> "IfNotPresent",
       gpuLimit |-> 1,
       env |-> [DT |-> "0.005", WEBRTC |-> "true"],
       ports |-> <<[name |-> "webrtc", containerPort |-> 8554,
                    protocol |-> "TCP"]>>,
       volumeMounts |-> volumeMounts],
      [name |-> "monty",
       image |-> monty_image(run),
       env |-> [CHECKPOINT_IN |-> s3_checkpoint_in(run),
                CHECKPOINT_OUT |-> "/checkpoints/out.mstate",
                MONTY_CONFIG |-> "/glue/monty.yaml",
                DT |-> "0.005"],
       volumeMounts |-> volumeMounts],
      [name |-> "glue",
       image |-> glue_image,
       command |-> <<"python", "/glue/run.py">>,
       env |-> [DT |-> "0.005",
                OBS_SCHEMA_PATH |-> "/glue/observation.schema.json",
                ACT_SCHEMA_PATH |-> "/glue/action.schema.json"],
       volumeMounts |-> volumeMounts],
      [name |-> "artifact-uploader",
       image |-> "public.ecr.aws/aws-cli/aws-cli:latest",
       command |-> <<"/bin/sh", "-lc", UploaderScript(run)>>,
       volumeMounts |-> SubSeq(volumeMounts, 1, 2)]>>

JobTemplate(run, active_deadline_seconds, name) ==
    [apiVersion |-> "batch/v1",
     kind |-> "Job",
     metadata |-> [name |-> name,
                   namespace |-> NAMESPACE,
                   labels |-> [app |-> "sim-run",
                               run_id |-> RunIdText(run.id),
                               user |-> "default",
                               profile |-> run.brainProfile.id]],
     spec |-> [ttlSecondsAfterFinished |-> 600,
               activeDeadlineSeconds |-> active_deadline_seconds,
               backoffLimit |-> 0,
               template |->
                   [metadata |-> [labels |-> [app |-> "sim-run",
                                              run_id |-> RunIdText(run.id)]],
                    spec |-> [restartPolicy |-> "Never",
                              serviceAccountName |-> "sim-runner",
                              nodeSelector |-> [role |-> "gpu"],
                              tolerations |-> <<[key |-> "nvidia.com/gpu",
                                                 operator |-> "Equal",
                                                 value |-> "present",
                                                 effect |-> "NoSchedule"]>>,
                              containers |-> Containers(run),
                              volumes |-> <<[name |-> "ckpt", emptyDir |-> <<>>],
                                            [name |-> "artifacts", emptyDir |-> <<>>],
                                            [name |-> "glue", emptyDir |-> <<>>]>>]]]]

\* variant: the job name is numbered with the log counter
prepare_job_templateCounted(run, active_deadline_seconds) ==
    JobTemplate(run, active_deadline_seconds,
                "sim-run-" \o RunIdText(run.id) \o "-" \o ToString(log_counter))
prepare_job_template(run, active_deadline_seconds) ==
    JobTemplate(run, active_deadline_seconds, "sim-run-" \o RunIdText(run.id))

\* the arguments given to _prepare_job_template
BuildRunIds == {RunId(0, 0), RunId(1, MaxClock)}
CheckpointIns == {None, "", "s3://monty-checkpoints-dev/checkpoints/base.mstate"}
Deadlines == {300, 7200}
BuildRuns ==
    {[id |-> id,
      montyImage |-> [repo |-> "monty", tag |-> "v1"],
      simulatorImage |-> [repo |-> "unitree-sim", tag |-> "v1"],
      brainProfile |-> [id |-> "profile-1"],
      checkpointIn |-> c] : id \in BuildRunIds, c \in CheckpointIns}

\* one call of _prepare_job_template: nothing but the returned value is made
Build(run, active_deadline_seconds) ==
    /\ Len(jobBuilt) < MaxBuilds
    /\ jobBuilt' = Append(jobBuilt,
                          [run |-> run,
                           deadline |-> active_deadline_seconds,
                           template |-> prepare_job_template(
                                            run, active_deadline_seconds),
                           at |-> log_counter])
    /\ UNCHANGED <<runs, logs, metrics, active_connections, log_counter,
                   ws, suspended, response, nRequests, createOutcome,
                   submitCalls, deleteCalls, nCreated, sendFailures>>

\* template preparation at any point between create_run requests
NextJob ==
    \/ \E run \in BuildRuns, d \in Deadlines : Build(run, d)
    \/ \E now \in Clock : CreateSubmitFail(now) /\ UNCHANGED jobBuilt

SpecJob == Init /\ [][NextJob]_vars

TypeOK ==
    /\ DOMAIN runs \subseteq AllRunIds
    /\ \A r \in DOMAIN runs : runs[r].status \in RunStatus
    /\ log_counter \in Nat

\* ==== properties ====
Terminal == {Completed, Failed, Cancelled}

\* the transition table of the specification
SpecEdges == {<<Pending, Running>>, <<Pending, Failed>>,
              <<Running, Completed>>, <<Running, Failed>>,
              <<Running, Cancelled>>}
\* with the edge cancel_run takes on a run left Pending
CodeEdges == SpecEdges \cup {<<Pending, Cancelled>>}

\* every status change of this step is an edge of E; a run that appears was
\* inserted Pending and moved at most one edge
StatusFollows(E) ==
    /\ \A r \in DOMAIN runs :
         /\ r \in DOMAIN runs'
         /\ \/ runs'[r].status = runs[r].status
            \/ <<runs[r].status, runs'[r].status>> \in E
    /\ \A r \in DOMAIN runs' \ DOMAIN runs :
         \/ runs'[r].status = Pending
         \/ <<Pending, runs'[r].status>> \in E

\* this step is a cancel_run request for run r
CancelRequest(r) ==
    /\ nRequests' = nRequests + 1
    /\ DOMAIN runs' = DOMAIN runs
    /\ ws' = ws
    /\ IF suspended' = suspended
       THEN response'.op = "cancel" /\ response'.run = r
       ELSE \E h \in suspended' \ suspended : h.op = "cancel" /\ h.run = r

\* a cancel that would need an edge out of a status E has none for is refused
RefusedKeepsStatus(E) ==
    \A r \in DOMAIN runs :
      (CancelRequest(r) /\ <<runs[r].status, Cancelled>> \notin E)
        => /\ response'.result = "err_invalid_state"
           /\ runs' = runs

\* C1 (as stated): every status change follows Pending->Running,
\* Pending->Failed, Running->Completed, Running->Failed or Running->Cancelled,
\* and a request needing another edge fails and leaves the status unchanged.
C1_StatusEdgesAsStated ==
    [][StatusFollows(SpecEdges) /\ RefusedKeepsStatus(SpecEdges)]_vars

\* C1 (amended): every status change follows one of the edges above or
\* Pending->Cancelled, and a request needing any other edge fails and leaves
\* the status unchanged.
C1_StatusEdges ==
    [][StatusFollows(CodeEdges) /\ RefusedKeepsStatus(CodeEdges)]_vars

\* a run left Pending by a failed upload has been cancelled, and a later
\* cancel of it has been refused
C1_Witness ==
    \E r \in DOMAIN runs :
      /\ createOutcome[r] = "upload_failed"
      /\ runs[r].status = Cancelled
      /\ response = [op |-> "cancel", run |-> r, result |-> "err_invalid_state"]

\* C2: once a run is Completed, Failed or Cancelled its status never changes,
\* whatever create_run and cancel_run handlers interleave on it.
C2_TerminalIsFinal ==
    [][\A r \in DOMAIN runs :
         runs[r].status \in Terminal
           => r \in DOMAIN runs' /\ runs'[r].status = runs[r].status]_vars

\* the run was cancelled while its create_run was parked at a send, and
\* create_run has since run to its end
C2_Witness ==
    \E r \in DOMAIN runs :
      /\ runs[r].status = Cancelled
      /\ response = [op |-> "create", run |-> r, result |-> "ok"]
      /\ Len(logs[r]) = 3
      /\ logs[r][2].message = MsgCancelled

\* C3: when create_namespaced_job fails the run is Failed, its log holds
\* exactly one entry, of level Error, create_run answers with an error, and
\* the run stays in the registry.
C3_SubmitFailure ==
    \A r \in DOMAIN createOutcome :
      createOutcome[r] = "submit_failed"
        => /\ r \in DOMAIN runs
           /\ runs[r].status = Failed
           /\ Len(logs[r]) = 1
           /\ logs[r][1].level = Error
           /\ (response.op = "create" /\ response.run = r)
                => response.result \in {"err_submit", "err_value_error"}

\* create_run has answered with the submission error after its broadcast
C3_Witness ==
    /\ response.op = "create"
    /\ response.result = "err_submit"
    /\ response.run \in DOMAIN runs
    /\ createOutcome[response.run] = "submit_failed"
    /\ active_connections # <<>>

\* C4: when the upload fails create_run answers with an error, the run is in
\* the registry with status Pending, and create_namespaced_job is never
\* called for that run.
C4_UploadFailure ==
    [][\A r \in DOMAIN createOutcome' :
         createOutcome'[r] = "upload_failed"
           => /\ r \in DOMAIN runs'
              /\ submitCalls'[r] = 0
              /\ r \notin DOMAIN createOutcome
                   => /\ runs'[r].status = Pending
                      /\ response' = [op |-> "create", run |-> r,
                                      result |-> "err_upload"]]_vars

\* the upload of a run failed and the service went on to serve a request
C4_Witness ==
    \E r \in DOMAIN runs :
      /\ createOutcome[r] = "upload_failed"
      /\ runs[r].status = Pending
      /\ response.run # r

\* C5: every collaborator failure during create_run, a failed upload as well
\* as a failed submission, leaves an Error entry on the run's log and is
\* answered with an error.
C5_FailuresLogged ==
    \A r \in DOMAIN createOutcome :
      createOutcome[r] \in {"upload_failed", "submit_failed"}
        => /\ r \in DOMAIN logs
           /\ \E i \in DOMAIN logs[r] : logs[r][i].level = Error
           /\ (response.op = "create" /\ response.run = r)
                => response.result # "ok"

\* C6: a cancel_run of a Pending or Running run whose delete_namespaced_job
\* succeeds sets the status to Cancelled and appends exactly one entry,
\* Info "Run cancelled by user", to that run's log.
C6_CancelSucceeds ==
    [][\A r \in DOMAIN runs :
         (CancelRequest(r) /\ CancelAllowed(runs[r].status)
            /\ deleteCalls'[r].failed = deleteCalls[r].failed)
           => /\ deleteCalls'[r].ok = deleteCalls[r].ok + 1
              /\ runs'[r].status = Cancelled
              /\ Len(logs'[r]) = Len(logs[r]) + 1
              /\ SubSeq(logs'[r], 1, Len(logs[r])) = logs[r]
              /\ logs'[r][Len(logs'[r])] =
                   LogEntry(log_counter, r, Info, MsgCancelled)
              /\ \A q \in DOMAIN logs \ {r} : logs'[q] = logs[q]]_vars

\* a Pending run and a Running run have both been cancelled
C6_Witness ==
    \E r, q \in DOMAIN runs :
      /\ createOutcome[r] = "upload_failed"
      /\ createOutcome[q] = "submitted"
      /\ runs[r].status = Cancelled
      /\ runs[q].status = Cancelled
      /\ deleteCalls[r].ok = 1
      /\ deleteCalls[q].ok = 1

\* C7: a cancel_run of a Completed, Failed or Cancelled run is refused as an
\* invalid state and changes nothing: status, logs and the log counter stay
\* as they are and delete_namespaced_job is not called.
C7_CancelRefused ==
    [][\A r \in DOMAIN runs :
         (CancelRequest(r) /\ runs[r].status \in Terminal)
           => /\ response' = [op |-> "cancel", run |-> r,
                              result |-> "err_invalid_state"]
              /\ UNCHANGED <<runs, logs, log_counter, deleteCalls,
                             suspended, active_connections>>]_vars

\* cancels of a Failed run and of a Cancelled run have been refused
C7_Witness ==
    /\ response.op = "cancel"
    /\ response.result = "err_invalid_state"
    /\ response.run \in DOMAIN runs
    /\ runs[response.run].status = Cancelled
    /\ \E q \in DOMAIN runs : runs[q].status = Failed

\* C8: when delete_namespaced_job fails cancel_run answers with an error,
\* leaves status and logs as they were, and a later cancel_run of the run is
\* still accepted.
C8_DeleteFailure ==
    [][\A r \in DOMAIN runs :
         deleteCalls'[r].failed # deleteCalls[r].failed
           => /\ response' = [op |-> "cancel", run |-> r,
                              result |-> "err_cancel"]
              /\ UNCHANGED <<runs, logs, log_counter>>
              /\ CancelAllowed(runs'[r].status)]_vars

\* a cancel failed at the scheduler and a later one went through
C8_Witness ==
    \E r \in DOMAIN runs :
      /\ deleteCalls[r].failed = 1
      /\ deleteCalls[r].ok = 1
      /\ runs[r].status = Cancelled

\* C9: no create_run allocates an identity already in the registry: each
\* create adds one run and leaves every existing record, log stream and
\* metric stream as it was.
C9_FreshIdentity ==
    [][nCreated' # nCreated
         => /\ Cardinality(DOMAIN runs') = Cardinality(DOMAIN runs) + 1
            /\ Cardinality(DOMAIN runs') = nCreated'
            /\ \A r \in DOMAIN runs :
                 /\ r \in DOMAIN runs'
                 /\ runs'[r] = runs[r]
                 /\ logs'[r] = logs[r]
                 /\ metrics'[r] = metrics[r]]_vars

\* two runs were created within the same second
C9_Witness ==
    \E r, q \in DOMAIN runs :
      /\ r # q
      /\ r[2] = q[2]
      /\ logs[r] # <<>>

\* entries appended by this step to run r's log
NewEntries(r) ==
    IF r \in DOMAIN logs
    THEN SubSeq(logs'[r], Len(logs[r]) + 1, Len(logs'[r]))
    ELSE logs'[r]

DistinctLogIds ==
    \A r, q \in DOMAIN logs :
      \A i \in DOMAIN logs[r], j \in DOMAIN logs[q] :
        (logs[r][i].id = logs[q][j].id) => (r = q /\ i = j)

\* C10: log ids grow strictly in the order of appending and are never
\* reused: an appended entry's id is above every id given out before, and
\* any two entries, of one run or of two, have different ids.
C10_LogIds ==
    [][/\ \A r \in DOMAIN logs' :
            \A i \in DOMAIN NewEntries(r) :
              /\ NewEntries(r)[i].id >= log_counter
              /\ NewEntries(r)[i].id < log_counter'
              /\ \A j \in 1..(i - 1) : NewEntries(r)[j].id < NewEntries(r)[i].id
       /\ DistinctLogIds']_vars

\* the entries of two runs interleave: a cancel logged on one run between the
\* two entries of another run's create_run
C10_Witness ==
    \E r, q \in DOMAIN logs :
      /\ r # q
      /\ Len(logs[r]) >= 2
      /\ \E j \in DOMAIN logs[q] :
           /\ logs[r][1].id < logs[q][j].id
           /\ logs[q][j].id < logs[r][2].id

\* C11: a run's log is append-only: in every step the old list of each run
\* is a prefix of the new one, and the ids within one run's log increase.
C11_AppendOnly ==
    [][\A r \in DOMAIN logs :
         /\ r \in DOMAIN logs'
         /\ Len(logs'[r]) >= Len(logs[r])
         /\ SubSeq(logs'[r], 1, Len(logs[r])) = logs[r]
         /\ \A i, j \in DOMAIN logs'[r] :
              i < j => logs'[r][i].id < logs'[r][j].id]_vars

\* a log has grown to three entries while another run has a log of its own
C11_Witness ==
    \E r, q \in DOMAIN logs :
      /\ r # q
      /\ Len(logs[r]) = 3
      /\ Len(logs[q]) >= 1

\* ---- publishes ----
\* handler h is parked in a publish that is over after this step
PublishEnds(h) ==
    /\ h \in suspended
    /\ \A k \in suspended' : k.entry # h.entry

Observers(h) == {h.snap[i] : i \in DOMAIN h.snap}

\* how often observer w has been sent the entry of h's publish, the send h is
\* parked at included
Deliveries(h, w) ==
    Cardinality({i \in DOMAIN h.got : h.got[i] = w})
      + (IF h.conn = w THEN 1 ELSE 0)

FailedObservers == {p[1] : p \in sendFailures}

\* C12: a publish delivers the entry to every observer connected at publish
\* time whose own send succeeds, also when the send to another observer
\* fails: no observer is skipped because of another one's failure.  (No
\* endpoint has left the list on its own here, so every removal is the
\* except branch's.)
C12_DeliversDespiteFailures ==
    [][\A h \in suspended :
         (PublishEnds(h) /\ \A w \in Observers(h) : ws'[w] # "closed")
           => \A w \in Observers(h) :
                ws'[w] = "open" => Deliveries(h, w) >= 1]_vars

\* C13: an observer whose send failed is out of active_connections from then
\* on, and no send started afterwards goes to it.
C13_FailedObserverRemoved ==
    [][/\ \A w \in FailedObservers' : ~InList(active_connections', w)
       /\ \A k \in suspended' \ suspended : k.conn \notin FailedObservers']_vars

\* after a failed send removed an observer, a later publish goes to the
\* remaining one only
C13_Witness ==
    \E h \in suspended :
      /\ h.snap # <<>>
      /\ \E p \in sendFailures : p[2] /\ p[1] \notin Observers(h)
      /\ h.conn \notin FailedObservers

\* C18: connects and disconnects during a publish do not disturb it: every
\* observer connected when the publish began and still connected when it ends
\* has received the entry exactly once.  (No send failure has removed an
\* observer here, so every removal is an endpoint's own.)
C18_PublishSurvivesDisconnect ==
    [][\A h \in suspended :
         (PublishEnds(h) /\ \A p \in sendFailures' : ~p[2])
           => \A w \in Observers(h) :
                ws'[w] = "open" => Deliveries(h, w) = 1]_vars

\* C19: the broadcast never removes an observer that is no longer in the
\* list, so no create_run or cancel_run answers with an error raised by the
\* broadcast.
C19_NoBroadcastError ==
    /\ \A p \in sendFailures : p[2]
    /\ response.result # "err_value_error"

\* C20: once the entry of a run's terminal transition (the Error entry, or
\* "Run cancelled by user") is on its log, nothing more is appended to it.
C20_NothingAfterTerminalEntry ==
    [][\A r \in DOMAIN logs :
         (\E i \in DOMAIN logs[r] :
            logs[r][i].message \in {MsgJobFailed, MsgCancelled})
           => r \in DOMAIN logs' /\ logs'[r] = logs[r]]_vars

\* number of entries with the given message on run r's log
Count(r, message) ==
    Cardinality({i \in DOMAIN logs[r] : logs[r][i].message = message})

C17_SingleAttempt ==
    [][\A r \in DOMAIN submitCalls' :
         /\ submitCalls'[r] <= 1
         /\ r \in DOMAIN submitCalls => submitCalls'[r] = submitCalls[r]
         /\ (r \in DOMAIN runs /\ runs[r].status = Failed)
              => runs'[r].status # Running]_vars

\* a run whose upload failed was cancelled later without ever being
\* submitted, and a run whose submission failed is still Failed
C17_Witness ==
    \E r, q \in DOMAIN runs :
      /\ createOutcome[r] = "upload_failed"
      /\ runs[r].status = Cancelled
      /\ submitCalls[r] = 0
      /\ createOutcome[q] = "submit_failed"
      /\ submitCalls[q] = 1
      /\ runs[q].status = Failed

\* ---- the job template ----
\* the container of a template with the given name
Container(template, name) ==
    LET cs == template.spec.template.spec.containers
    IN cs[CHOOSE i \in DOMAIN cs : cs[i].name = name]

\* the words of the uploader's script line that copies the checkpoint
UploaderCopy(template) ==
    LET script == Container(template, "artifact-uploader").command[3]
    IN script[CHOOSE i \in DOMAIN script :
                  Len(script[i]) >= 3 /\ SubSeq(script[i], 1, 3) = <<"aws", "s3", "cp">>]

\* the checkpoint-in value the claim states for a run
StatedCheckpointIn(run) ==
    IF run.checkpointIn = None THEN "" ELSE run.checkpointIn

\* the object-store locator <checkpoint-bucket>/checkpoints/<run-id>/out.mstate
CheckpointOutLocator(run) ==
    "s3://" \o S3_CHECKPOINTS_BUCKET \o "/checkpoints/" \o RunIdText(run.id)
            \o "/out.mstate"

WithoutCheckpointIn(template) ==
    LET cs == template.spec.template.spec.containers
        m == CHOOSE i \in DOMAIN cs : cs[i].name = "monty"
    IN [template EXCEPT
            !.spec.template.spec.containers[m].env.CHECKPOINT_IN = ""]

\* the two runs are equal in every field but checkpointIn
SameButCheckpointIn(r1, r2) ==
    [r1 EXCEPT !.checkpointIn = None] = [r2 EXCEPT !.checkpointIn = None]

\* C16: two calls of _prepare_job_template with equal arguments return equal
\* templates whatever the registry and the log counter were at each call;
\* two calls whose runs differ only in checkpointIn return templates that
\* differ only in the monty container's CHECKPOINT_IN; and a call changes
\* none of runs, logs, metrics, active_connections and log_counter.
C16_BuildIsPure ==
    /\ [](\A i, j \in DOMAIN jobBuilt :
            LET a == jobBuilt[i]
                b == jobBuilt[j]
            IN /\ (a.run = b.run /\ a.deadline = b.deadline)
                      => a.template = b.template
               /\ (SameButCheckpointIn(a.run, b.run) /\ a.deadline = b.deadline)
                      => WithoutCheckpointIn(a.template)
                             = WithoutCheckpointIn(b.template))
    /\ [][jobBuilt' # jobBuilt
              => UNCHANGED <<runs, logs, metrics, active_connections,
                             log_counter>>]_vars

\* two templates were built, with create_run requests in between, for runs
\* that differ only in checkpointIn, and their CHECKPOINT_IN values differ
C16_Witness ==
    \E i, j \in DOMAIN jobBuilt :
        LET a == jobBuilt[i]
            b == jobBuilt[j]
        IN /\ a.at # b.at
           /\ a.run # b.run
           /\ SameButCheckpointIn(a.run, b.run)
           /\ a.deadline = b.deadline
           /\ a.template # b.template
           /\ WithoutCheckpointIn(a.template) = WithoutCheckpointIn(b.template)

====
